---- MODULE Spec2Model ----
(***************************************************************************)
(* A model of fastai/vision/data.py: the ImageDataBunch.normalize facade   *)
(* state, the COCO annotation reader get_annotations, the dataset          *)
(* constructors, the DatasetTfm wrapper, the ImageDataBunch.create factory *)
(* and the verify_images worker pool.                                      *)
(*                                                                         *)
(* Python values are encoded as follows.  None is the empty sequence and   *)
(* a present value v is <<v>>.  A Python list is a TLA+ sequence; Python   *)
(* index k is position k+1.  A dict is a function whose DOMAIN is the key  *)
(* set; where the insertion order of a dict matters, the keys are kept in  *)
(* a separate sequence.                                                    *)
(***************************************************************************)
EXTENDS Integers, Sequences, FiniteSets, TLC

VARIABLES
    \* ---- ImageDataBunch (normalize) ----
    stats,        \* self.stats: None or <<sequence of per-channel statistics>>
    norm,         \* self.norm: None or <<the normalize partial>>
    denorm,       \* self.denorm: None or <<the denormalize partial>>
    dl_tfms,      \* the loader-level transforms registered through add_tfm
    calls,        \* number of normalize calls made so far
    last,         \* how the latest normalize call ended: "none", "returned", "raised"
    succeeded,    \* some normalize call has returned
    n_stats,      \* number of assignments to self.stats
    n_norm,       \* number of assignments to self.norm, self.denorm
    n_add_tfm,    \* number of calls of self.add_tfm
    \* ---- get_annotations ----
    annot_dict,   \* the parsed JSON: categories, annotations, images
    prefix,       \* the prefix argument: None or <<string>>
    ga_pc,        \* "start" before the call, "done" after it
    ga_ret,       \* the call's outcome: [exc, fnames, bboxes, cats]
    \* ---- dataset constructors ----
    ds_pc,        \* "start" before a constructor call, "done" after it
    ds_args,      \* the constructor called and its arguments
    ds_exc,       \* "" or the exception the constructor raised
    ds_obj        \* None, or <<the dataset the constructor returned>>

vars_ds == <<ds_pc, ds_args, ds_exc, ds_obj>>

VARIABLES
    \* ---- DatasetTfm ----
    inner,        \* the wrapped dataset: [items, classes], shared with its other users
    inner0,       \* the wrapped dataset as it was when it was wrapped
    wrapper,      \* None, or <<[tfms, kwargs, tfm_y, y_kwargs]>>: the DatasetTfm's fields
    accesses,     \* number of wrapper operations made so far
    op,           \* the latest wrapper operation: [name, idx]
    read,         \* None, or <<the pair self.ds[idx] gave the latest __getitem__>>
    applied,      \* the apply_tfms calls of the latest __getitem__, in order
    ret           \* None (nothing returned, or an exception), or <<the value returned>>

vars_tfm == <<inner, inner0, wrapper, accesses, op, read, applied, ret>>

VARIABLES
    \* ---- ImageDataBunch.create ----
    cr_pc,        \* "start" before the call, "done" after it
    cr_args,      \* the arguments: [test_ds, bs, ds_tfms, size]
    cr_exc,       \* "" or the exception create raised
    cr_dls        \* the loaders handed to cls(*dls, ...), in order

vars_create == <<cr_pc, cr_args, cr_exc, cr_dls>>

VARIABLES
    \* ---- verify_images ----
    vi_pc,          \* "start", "pool" (inside the with block), "returned"
    vi_delete,      \* the delete argument
    vi_max_workers, \* the max_workers argument
    vi_kind,        \* what each file of the directory holds
    vi_present,     \* the files the directory holds now
    vi_task,        \* per file: "unsubmitted", "queued", "running", "failed", "done"
    vi_checks,      \* per file: how many times open_image was called on it
    vi_drained      \* the futures the as_completed loop has consumed

vars_verify == <<vi_pc, vi_delete, vi_max_workers, vi_kind, vi_present, vi_task,
                 vi_checks, vi_drained>>

vars_annot == <<annot_dict, prefix, ga_pc, ga_ret>>

vars_bunch == <<stats, norm, denorm, dl_tfms, calls, last, succeeded, n_stats, n_norm, n_add_tfm>>

vars == <<vars_bunch, vars_annot, vars_ds, vars_tfm, vars_create, vars_verify>>

\* what an operation of one component leaves alone
not_bunch == <<vars_annot, vars_ds, vars_tfm, vars_create, vars_verify>>
not_annot == <<vars_bunch, vars_ds, vars_tfm, vars_create, vars_verify>>
not_ds == <<vars_bunch, vars_annot, vars_tfm, vars_create, vars_verify>>
not_tfm == <<vars_bunch, vars_annot, vars_ds, vars_create, vars_verify>>
not_create == <<vars_bunch, vars_annot, vars_ds, vars_tfm, vars_verify>>
not_verify == <<vars_bunch, vars_annot, vars_ds, vars_tfm, vars_create>>

None == <<>>
Some(v) == <<v>>

(***************************************************************************)
(* Bounds.                                                                 *)
(***************************************************************************)
MaxCalls == 3
MaxStatsLen == 3
MaxAnns == 2
MaxItems == 2
MaxClasses == 2
MaxFiles == 3
MaxDsLen == 2
MaxAccesses == 3
NumFiles == 3          \* files in the directory verify_images scans
MaxWorkers == 2        \* largest max_workers argument

\* abstract per-channel statistics (a mean or a std tensor)
StatVals == {1, 2}

SeqsUpTo(S, n) == UNION {[1..k -> S] : k \in 0..n}

(***************************************************************************)
(* ImageDataBunch.normalize                                                *)
(***************************************************************************)

\* a transform given to the loaders when the bunch was created
UserTfm == [kind |-> "user", mean |-> 0, std |-> 0]

\* normalize_funcs(mean, std): the pair (partial(_normalize_batch, mean, std),
\* partial(denormalize, mean, std))
normalize_funcs(mean, std) ==
    << [kind |-> "_normalize_batch", mean |-> mean, std |-> std],
       [kind |-> "denormalize", mean |-> mean, std |-> std] >>

\* normalize_funcs(*stats) binds exactly two positional arguments; any other
\* number of elements in stats is a TypeError
normalize_funcs_raises(s) == Len(s) # 2

\* DataBunch.add_tfm(tfm): every loader gets the transform appended
add_tfm(tfms, tfm) == Append(tfms, tfm)

\* a faulty guard: the attribute is never found
getattr_norm_mut(n) == FALSE

\* getattr(self, 'norm', False): falsy while the attribute is unset, truthy
\* once it holds the partial
getattr_norm(n) == n # None

\* what batch_stats() can do: raise (the valid loader yields no batch), or
\* return [mean, std] for the two default reduction functions
Raise == <<>>
BatchStatsOutcomes == {Raise} \cup {Some(<<m, s>>) : m \in StatVals, s \in StatVals}

\* the stats argument: None, or a collection of any length
StatsArgs == {None} \cup {Some(s) : s \in SeqsUpTo(StatVals, MaxStatsLen)}

normalize_raise ==
    /\ last' = "raised"
    /\ UNCHANGED <<norm, denorm, dl_tfms, succeeded, n_norm, n_add_tfm>>

normalize(arg, bs) ==
    /\ calls < MaxCalls
    /\ UNCHANGED not_bunch
    /\ calls' = calls + 1
    /\ IF getattr_norm(norm)
         THEN \* line 343: raise Exception('Can not call normalize twice')
              normalize_raise /\ UNCHANGED <<stats, n_stats>>
       ELSE IF arg = None /\ bs = Raise
         THEN \* line 344: batch_stats() raised before the assignment
              normalize_raise /\ UNCHANGED <<stats, n_stats>>
       ELSE LET s == IF arg = None THEN bs[1] ELSE arg[1] IN
            /\ stats' = Some(s)
            /\ n_stats' = n_stats + 1
            /\ IF normalize_funcs_raises(s)
                 THEN \* line 346: the right-hand side raised; self.stats stays assigned
                      normalize_raise
                 ELSE LET fs == normalize_funcs(s[1], s[2]) IN
                      /\ norm' = Some(fs[1])
                      /\ denorm' = Some(fs[2])
                      /\ n_norm' = n_norm + 1
                      /\ dl_tfms' = add_tfm(dl_tfms, fs[1])
                      /\ n_add_tfm' = n_add_tfm + 1
                      /\ last' = "returned"
                      /\ succeeded' = TRUE

InitBunch ==
    /\ stats = None
    /\ norm = None
    /\ denorm = None
    /\ dl_tfms \in {<<>>, <<UserTfm>>}
    /\ calls = 0
    /\ last = "none"
    /\ succeeded = FALSE
    /\ n_stats = 0
    /\ n_norm = 0
    /\ n_add_tfm = 0

NextBunch == \E arg \in StatsArgs, bs \in BatchStatsOutcomes : normalize(arg, bs)

(***************************************************************************)
(* get_annotations                                                         *)
(***************************************************************************)

ImageIds == {1, 2, 3}
CategoryIds == {1, 2}
Boxes == {<<10, 20, 30, 40>>, <<1, 2, 3, 5>>}

category_name(id) == IF id = 1 THEN "person" ELSE "dog"
file_name(id) == IF id = 1 THEN "a.jpg" ELSE IF id = 2 THEN "b.jpg" ELSE "c.jpg"

InjectiveSeqs(S) ==
    {q \in SeqsUpTo(S, Cardinality(S)) : \A i, j \in 1..Len(q) : q[i] = q[j] => i = j}

\* the `categories` and `images` arrays: entries with distinct ids, in any order,
\* over any subset of the ids; the `annotations` array refers to any id, listed or not
CategoriesInputs ==
    {[k \in 1..Len(q) |-> [id |-> q[k], name |-> category_name(q[k])]] : q \in InjectiveSeqs(CategoryIds)}
ImagesInputs ==
    {[k \in 1..Len(q) |-> [id |-> q[k], file_name |-> file_name(q[k])]] : q \in InjectiveSeqs(ImageIds)}
AnnotationsInputs ==
    SeqsUpTo([image_id : ImageIds, category_id : CategoryIds, bbox : Boxes], MaxAnns)

EmptyDict == [k \in {} |-> <<>>]

\* d[k] = v on a dict
dict_set(d, k, v) == [i \in DOMAIN d \cup {k} |-> IF i = k THEN v ELSE d[i]]

\* collections.defaultdict(list): d[k] of a missing key is a fresh []
defaultdict_get(d, k) == IF k \in DOMAIN d THEN d[k] ELSE <<>>

\* d[k].append(v) on a defaultdict(list)
defaultdict_append(d, k, v) == dict_set(d, k, Append(defaultdict_get(d, k), v))

\* lines 26-27: for o in annot_dict['categories']: classes[o['id']] = o['name']
RECURSIVE build_classes(_, _)
build_classes(categories, k) ==
    IF k = 0 THEN EmptyDict
    ELSE dict_set(build_classes(categories, k - 1), categories[k].id, categories[k].name)

\* a faulty conversion: x and y not swapped
convert_bbox_mut(bb) == <<bb[1], bb[2], bb[3] + bb[1], bb[4] + bb[2]>>

\* line 30: [bb[1],bb[0], bb[3]+bb[1], bb[2]+bb[0]] (Python index i is position i+1)
convert_bbox(bb) == <<bb[2], bb[1], bb[4] + bb[2], bb[3] + bb[1]>>

\* a faulty lookup: classes.get(id, "unknown") instead of classes[id]
classes_getitem_mut(classes, id) == IF id \in DOMAIN classes THEN Some(classes[id]) ELSE Some("unknown")

\* line 31: classes[o['category_id']] on a plain dict: None stands for KeyError
classes_getitem(classes, id) == IF id \in DOMAIN classes THEN Some(classes[id]) ELSE None

\* lines 28-31: the loop over the annotations, stopped by the first KeyError
RECURSIVE scan_annotations(_, _, _)
scan_annotations(annotations, classes, k) ==
    IF k = 0 THEN [exc |-> FALSE, id2bboxes |-> EmptyDict, id2cats |-> EmptyDict]
    ELSE LET p == scan_annotations(annotations, classes, k - 1)
             o == annotations[k]
             b == defaultdict_append(p.id2bboxes, o.image_id, convert_bbox(o.bbox))
             c == classes_getitem(classes, o.category_id)
         IN  IF p.exc THEN p
             ELSE IF c = None THEN [exc |-> TRUE, id2bboxes |-> b, id2cats |-> p.id2cats]
             ELSE [exc |-> FALSE, id2bboxes |-> b,
                   id2cats |-> defaultdict_append(p.id2cats, o.image_id, c[1])]

\* a faulty filter: every image is kept
keep_image_mut(o, id2bboxes) == TRUE

\* line 33: if o['id'] in id2bboxes
keep_image(o, id2bboxes) == o.id \in DOMAIN id2bboxes

\* line 34: ifnone(prefix, '') + o['file_name'], a string kept as its parts
prefixed(pre, name) == (IF pre = None THEN <<>> ELSE <<pre[1]>>) \o <<name>>

\* lines 32-34: id2images, a dict in insertion order: its keys and its mapping
RECURSIVE scan_images(_, _, _, _)
scan_images(images, id2bboxes, pre, k) ==
    IF k = 0 THEN [keys |-> <<>>, map |-> EmptyDict]
    ELSE LET p == scan_images(images, id2bboxes, pre, k - 1)
             o == images[k]
         IN  IF keep_image(o, id2bboxes)
               THEN [keys |-> IF o.id \in DOMAIN p.map THEN p.keys ELSE Append(p.keys, o.id),
                     map  |-> dict_set(p.map, o.id, prefixed(pre, o.file_name))]
               ELSE p

\* the whole function: the outcome for one input
get_annotations_result(d, pre) ==
    LET classes == build_classes(d.categories, Len(d.categories))
        a == scan_annotations(d.annotations, classes, Len(d.annotations))
        id2images == scan_images(d.images, a.id2bboxes, pre, Len(d.images))
        ids == id2images.keys
    IN  IF a.exc THEN [exc |-> TRUE, fnames |-> <<>>, bboxes |-> <<>>, cats |-> <<>>]
        ELSE [exc    |-> FALSE,
              fnames |-> [k \in 1..Len(ids) |-> id2images.map[ids[k]]],
              bboxes |-> [k \in 1..Len(ids) |-> defaultdict_get(a.id2bboxes, ids[k])],
              cats   |-> [k \in 1..Len(ids) |-> defaultdict_get(a.id2cats, ids[k])]]

NotCalled == [exc |-> FALSE, fnames |-> <<>>, bboxes |-> <<>>, cats |-> <<>>]

get_annotations ==
    /\ ga_pc = "start"
    /\ UNCHANGED not_annot
    /\ ga_pc' = "done"
    /\ ga_ret' = get_annotations_result(annot_dict, prefix)
    /\ UNCHANGED <<annot_dict, prefix>>

InitAnnot ==
    /\ annot_dict \in [categories : CategoriesInputs, annotations : AnnotationsInputs,
                       images : ImagesInputs]
    /\ prefix \in {None, Some("imgs/")}
    /\ ga_pc = "start"
    /\ ga_ret = NotCalled

NextAnnot == get_annotations

(***************************************************************************)
(* The dataset constructors                                                *)
(***************************************************************************)

Labels == {"background", "cat", "dog"}

\* the label lists of one image (ImageMultiDataset, ObjectDetectDataset)
LabelLists ==
    {<<>>, <<"cat">>, <<"background">>, <<"dog", "cat">>, <<"cat", "background">>}

\* file lists matter by their length only: n paths
Files(n) == [k \in 1..n |-> k]
Masks(n) == [k \in 1..n |-> k + 100]
BoxLists(n) == [k \in 1..n |-> <<<<0, 0, k, k>>>>]

\* the classes argument: None, or any list, repeats included
ClassesArgs == {None} \cup {Some(c) : c \in SeqsUpTo(Labels, MaxClasses)}

Range(q) == {q[k] : k \in 1..Len(q)}

\* ifnone(a, b): b when a is None, else a
ifnone(a, b) == IF a = None THEN b ELSE a[1]

\* uniqueify(x): the distinct elements of x in the order first seen
RECURSIVE uniqueify(_)
uniqueify(x) ==
    IF x = <<>> THEN <<>>
    ELSE LET front == SubSeq(x, 1, Len(x) - 1)
             u == uniqueify(front)
         IN  IF x[Len(x)] \in Range(front) THEN u ELSE Append(u, x[Len(x)])

\* np.concatenate(labels): the label lists joined
RECURSIVE concatenate(_)
concatenate(ls) == IF ls = <<>> THEN <<>> ELSE ls[1] \o concatenate(Tail(ls))

\* np.concatenate of an empty list raises ValueError
concatenate_raises(ls) == ls = <<>>

\* {v:k for k,v in enumerate(classes)}: a repeated entry keeps its last index
enumerate_dict(classes) ==
    [v \in Range(classes) |->
        (CHOOSE k \in 1..Len(classes) :
            classes[k] = v /\ \A j \in 1..Len(classes) : classes[j] = v => j <= k) - 1]

ds_fail(args, exc) ==
    /\ ds_args' = args
    /\ ds_exc' = exc
    /\ ds_obj' = None

ds_return(args, obj) ==
    /\ ds_args' = args
    /\ ds_exc' = ""
    /\ ds_obj' = Some(obj)

\* ImageClassificationDataset.__init__(fns, labels, classes)
ImageClassificationDataset(fns, labels, classes) ==
    LET args == [kind |-> "ImageClassificationDataset", x |-> fns, y |-> labels,
                 bbs |-> <<>>, classes |-> classes]
        cl == ifnone(classes, uniqueify(labels))
        c2i == enumerate_dict(cl)
    IN  /\ ds_pc = "start"
        /\ UNCHANGED not_ds
        /\ ds_pc' = "done"
        /\ IF \E k \in 1..Len(labels) : labels[k] \notin DOMAIN c2i
             THEN \* line 79: self.class2idx[o] of a label that is not a class
                  ds_fail(args, "KeyError")
             ELSE ds_return(args,
                    [kind |-> "ImageClassificationDataset", x |-> fns,
                     y |-> [k \in 1..Len(labels) |-> c2i[labels[k]]],
                     classes |-> cl, class2idx |-> c2i])

\* ImageMultiDataset.__init__(fns, labels, classes)
ImageMultiDataset(fns, labels, classes) ==
    LET args == [kind |-> "ImageMultiDataset", x |-> fns, y |-> labels,
                 bbs |-> <<>>, classes |-> classes]
        cl == ifnone(classes, uniqueify(concatenate(labels)))
        c2i == enumerate_dict(cl)
    IN  /\ ds_pc = "start"
        /\ UNCHANGED not_ds
        /\ ds_pc' = "done"
        /\ IF concatenate_raises(labels)
             THEN \* line 111: the default is computed whether or not classes is given
                  ds_fail(args, "ValueError")
           ELSE IF \E k \in 1..Len(labels) : \E j \in 1..Len(labels[k]) :
                     labels[k][j] \notin DOMAIN c2i
             THEN \* line 114
                  ds_fail(args, "KeyError")
             ELSE ds_return(args,
                    [kind |-> "ImageMultiDataset", x |-> fns,
                     y |-> [k \in 1..Len(labels) |->
                              [j \in 1..Len(labels[k]) |-> c2i[labels[k][j]]]],
                     classes |-> cl, class2idx |-> c2i])

\* a faulty constructor: the assert is missing
seg_assert_mut(x, y) == TRUE

\* line 145: assert len(x)==len(y)
seg_assert(x, y) == Len(x) = Len(y)

\* SegmentationDataset.__init__(x, y, classes)
SegmentationDataset(x, y, classes) ==
    LET args == [kind |-> "SegmentationDataset", x |-> x, y |-> y,
                 bbs |-> <<>>, classes |-> Some(classes)]
    IN  /\ ds_pc = "start"
        /\ UNCHANGED not_ds
        /\ ds_pc' = "done"
        /\ IF ~seg_assert(x, y)
             THEN ds_fail(args, "AssertionError")
             ELSE ds_return(args,
                    [kind |-> "SegmentationDataset", x |-> x, y |-> y, classes |-> classes,
                     div |-> FALSE, convert_mode |-> "L"])

\* lines 161-162: the union of the label lists, a set
label_union(labels) == UNION {Range(labels[k]) : k \in 1..Len(labels)}

\* list(a set): its elements once each, in an order the caller does not control
ListsOfSet(S) == {q \in [1..Cardinality(S) -> S] : Range(q) = S}

\* lines 159-160: the two asserts
detect_asserts(x_fns, bbs, labels) == Len(x_fns) = Len(bbs) /\ Len(x_fns) = Len(labels)

\* ObjectDetectDataset.__post_init__ after the dataclass __init__(x_fns, bbs, labels);
\* listed is the order list(self.classes) produced
ObjectDetectDataset(x_fns, bbs, labels, listed) ==
    LET args == [kind |-> "ObjectDetectDataset", x |-> x_fns, y |-> labels,
                 bbs |-> bbs, classes |-> None]
        cl == <<"background">> \o listed
    IN  /\ ds_pc = "start"
        /\ UNCHANGED not_ds
        /\ ds_pc' = "done"
        /\ listed \in ListsOfSet(label_union(labels))
        /\ IF ~detect_asserts(x_fns, bbs, labels)
             THEN ds_fail(args, "AssertionError")
             ELSE ds_return(args,
                    [kind |-> "ObjectDetectDataset", x_fns |-> x_fns, bbs |-> bbs,
                     labels |-> labels, classes |-> cl, class2idx |-> enumerate_dict(cl)])

NoArgs == [kind |-> "", x |-> <<>>, y |-> <<>>, bbs |-> <<>>, classes |-> None]

InitDs ==
    /\ ds_pc = "start"
    /\ ds_args = NoArgs
    /\ ds_exc = ""
    /\ ds_obj = None

NextDs ==
    \/ /\ ds_pc = "start"
       /\ \E n \in 0..MaxItems, labels \in SeqsUpTo(Labels, MaxItems), classes \in ClassesArgs :
            ImageClassificationDataset(Files(n), labels, classes)
    \/ /\ ds_pc = "start"
       /\ \E n \in 0..MaxItems, labels \in SeqsUpTo(LabelLists, MaxItems), classes \in ClassesArgs :
            ImageMultiDataset(Files(n), labels, classes)
    \/ /\ ds_pc = "start"
       /\ \E n \in 0..MaxFiles, k \in 0..MaxFiles, classes \in SeqsUpTo(Labels, MaxClasses) :
            SegmentationDataset(Files(n), Masks(k), classes)
    \/ /\ ds_pc = "start"
       /\ \E n \in 0..MaxFiles, k \in 0..MaxFiles, labels \in SeqsUpTo(LabelLists, MaxItems) :
            \E listed \in ListsOfSet(label_union(labels)) :
              ObjectDetectDataset(Files(n), BoxLists(k), labels, listed)

(***************************************************************************)
(* DatasetTfm                                                              *)
(***************************************************************************)

\* an input or a target: what it was loaded from and the transform passes it
\* has been through
Item(base) == [base |-> base, hist |-> <<>>]

\* a dataset of n items
Dataset(n) ==
    [items |-> [k \in 1..n |-> [x |-> Item(k), y |-> Item(k + 100)]],
     classes |-> <<"cat", "dog">>]

\* tfms: None (the default, which reads as the empty list) or a list of transforms
TfmLists == {<<>>, <<"flip">>, <<"crop", "flip">>}

\* **kwargs, a dict over the keys size and do_resolve: a key that is absent
\* is None, a key that is present holds <<its value>>
KwargsInputs == [size : {None, Some(224)}, do_resolve : {None, Some(TRUE), Some(FALSE)}]

\* apply_tfms(tfms, x, **kwargs): nothing to apply returns x itself, otherwise
\* x after one more pass
apply_tfms(tfms, x, kwargs) ==
    IF tfms = <<>> THEN x
    ELSE [x EXCEPT !.hist = Append(@, [tfms |-> tfms, kwargs |-> kwargs])]

\* a faulty merge: {'do_resolve':False, **self.kwargs}, the caller's key wins
y_kwargs_of_mut(kwargs) ==
    IF kwargs.do_resolve # None THEN kwargs ELSE [kwargs EXCEPT !.do_resolve = Some(FALSE)]

\* line 186: {**self.kwargs, 'do_resolve':False}: the later key wins
y_kwargs_of(kwargs) == [kwargs EXCEPT !.do_resolve = Some(FALSE)]

\* a faulty read: the item is popped from the dataset
dataset_getitem_mut(ds, idx) ==
    [item |-> ds.items[idx + 1],
     ds   |-> [ds EXCEPT !.items = SubSeq(@, 1, idx) \o SubSeq(@, idx + 2, Len(@))]]

\* line 193: self.ds[idx], the wrapped dataset's __getitem__ (line 72): the
\* item read and the dataset after the read
dataset_getitem(ds, idx) == [item |-> ds.items[idx + 1], ds |-> ds]

\* DatasetTfm.__init__(ds, tfms, tfm_y, **kwargs)
DatasetTfm_init(tfms, tfm_y, kwargs) ==
    /\ wrapper = None
    /\ UNCHANGED not_tfm
    /\ wrapper' = Some([tfms |-> tfms, kwargs |-> kwargs, tfm_y |-> tfm_y,
                        y_kwargs |-> y_kwargs_of(kwargs)])
    /\ UNCHANGED <<inner, inner0, accesses, op, read, applied, ret>>

\* DatasetTfm.__len__
DatasetTfm_len ==
    /\ wrapper # None
    /\ accesses < MaxAccesses
    /\ UNCHANGED not_tfm
    /\ accesses' = accesses + 1
    /\ op' = [name |-> "__len__", idx |-> 0]
    /\ ret' = Some(Len(inner.items))
    /\ read' = None
    /\ applied' = <<>>
    /\ UNCHANGED <<inner, inner0, wrapper>>

\* DatasetTfm.__getattr__(k) for an attribute the wrapper does not define
DatasetTfm_getattr ==
    /\ wrapper # None
    /\ accesses < MaxAccesses
    /\ UNCHANGED not_tfm
    /\ accesses' = accesses + 1
    /\ op' = [name |-> "__getattr__", idx |-> 0]
    /\ ret' = Some(inner.classes)
    /\ read' = None
    /\ applied' = <<>>
    /\ UNCHANGED <<inner, inner0, wrapper>>

\* DatasetTfm.__getitem__(idx)
DatasetTfm_getitem(idx) ==
    /\ wrapper # None
    /\ accesses < MaxAccesses
    /\ UNCHANGED not_tfm
    /\ accesses' = accesses + 1
    /\ op' = [name |-> "__getitem__", idx |-> idx]
    /\ UNCHANGED <<inner0, wrapper>>
    /\ IF idx >= Len(inner.items)
         THEN \* line 193: self.ds[idx] raises IndexError
              /\ ret' = None
              /\ read' = None
              /\ applied' = <<>>
              /\ UNCHANGED inner
         ELSE LET w == wrapper[1]
                  r == dataset_getitem(inner, idx)
                  x == apply_tfms(w.tfms, r.item.x, w.kwargs)
                  y == IF w.tfm_y THEN apply_tfms(w.tfms, r.item.y, w.y_kwargs) ELSE r.item.y
              IN  /\ inner' = r.ds
                  /\ read' = Some(r.item)
                  /\ applied' =
                        <<[on |-> "x", tfms |-> w.tfms, kwargs |-> w.kwargs]>> \o
                        (IF w.tfm_y
                           THEN <<[on |-> "y", tfms |-> w.tfms, kwargs |-> w.y_kwargs]>>
                           ELSE <<>>)
                  /\ ret' = Some(<<x, y>>)

InitTfm ==
    /\ inner \in {Dataset(n) : n \in 0..MaxDsLen}
    /\ inner0 = inner
    /\ wrapper = None
    /\ accesses = 0
    /\ op = [name |-> "", idx |-> 0]
    /\ read = None
    /\ applied = <<>>
    /\ ret = None

NextTfm ==
    \/ \E tfms \in TfmLists, tfm_y \in BOOLEAN, kwargs \in KwargsInputs :
          DatasetTfm_init(tfms, tfm_y, kwargs)
    \/ DatasetTfm_len
    \/ DatasetTfm_getattr
    \/ \E idx \in 0..MaxDsLen : DatasetTfm_getitem(idx)

(***************************************************************************)
(* ImageDataBunch.create and transform_datasets                            *)
(***************************************************************************)

BatchSizes == {1, 2, 64}

\* ds_tfms: None, or a tuple of transform lists of any length up to two
DsTfmsArgs == {None} \cup {Some(t) : t \in SeqsUpTo(TfmLists, 2)}

\* a dataset as the loaders see it: as given, or inside a DatasetTfm
Plain(name) == [ds |-> name, tfm |-> None]

\* DatasetTfm(ds, tfms, **kwargs) with kwargs = {size: size}
Wrapped(d, tfms, size) ==
    LET kwargs == [size |-> size, do_resolve |-> None] IN
    [ds |-> d.ds,
     tfm |-> Some([tfms |-> tfms, kwargs |-> kwargs, tfm_y |-> FALSE,
                   y_kwargs |-> y_kwargs_of(kwargs)])]

\* lines 209-211 index tfms[0] and tfms[1]: a shorter tuple is an IndexError
transform_datasets_raises(tfms) == Len(tfms) < 2

\* transform_datasets(train_ds, valid_ds, test_ds, tfms, **kwargs): train with
\* tfms[0], valid and, if there is one, test with tfms[1]
transform_datasets(datasets, tfms, size) ==
    [k \in 1..Len(datasets) |-> Wrapped(datasets[k], IF k = 1 THEN tfms[1] ELSE tfms[2], size)]

\* a faulty tuple: every loader gets bs
loader_args_mut(bs) == <<<<bs, TRUE>>, <<bs, FALSE>>, <<bs, FALSE>>>>

\* line 268: (bs,bs*2,bs*2) and (True,False,False), position by position
loader_args(bs) == <<<<bs, TRUE>>, <<bs * 2, FALSE>>, <<bs * 2, FALSE>>>>

Min(a, b) == IF a <= b THEN a ELSE b

\* lines 267-268: DataLoader(*o) for o in zip(datasets, ...): zip stops with
\* its shortest argument
make_loaders(datasets, bs) ==
    [k \in 1..Min(Len(datasets), Len(loader_args(bs))) |->
        [dataset |-> datasets[k], batch_size |-> loader_args(bs)[k][1],
         shuffle |-> loader_args(bs)[k][2]]]

\* `if ds_tfms:` None and the empty tuple are falsy
truthy(ds_tfms) == ds_tfms # None /\ ds_tfms[1] # <<>>

\* ImageDataBunch.create(train_ds, valid_ds, test_ds, bs=bs, ds_tfms=ds_tfms, size=size)
create(test_ds, bs, ds_tfms, size) ==
    LET args == [test_ds |-> test_ds, bs |-> bs, ds_tfms |-> ds_tfms, size |-> size]
        datasets == <<Plain("train"), Plain("valid")>> \o
                    (IF test_ds # None THEN <<Plain(test_ds[1])>> ELSE <<>>)
    IN  /\ cr_pc = "start"
        /\ UNCHANGED not_create
        /\ cr_pc' = "done"
        /\ cr_args' = args
        /\ IF truthy(ds_tfms) /\ transform_datasets_raises(ds_tfms[1])
             THEN /\ cr_exc' = "IndexError"
                  /\ cr_dls' = <<>>
             ELSE /\ cr_exc' = ""
                  /\ cr_dls' = make_loaders(
                        IF truthy(ds_tfms)
                          THEN transform_datasets(datasets, ds_tfms[1], size)
                          ELSE datasets, bs)

NoCreateArgs == [test_ds |-> None, bs |-> 0, ds_tfms |-> None, size |-> None]

InitCreate ==
    /\ cr_pc = "start"
    /\ cr_args = NoCreateArgs
    /\ cr_exc = ""
    /\ cr_dls = <<>>

NextCreate ==
    \E test_ds \in {None, Some("test")}, bs \in BatchSizes, ds_tfms \in DsTfmsArgs,
       size \in {None, Some(224)} :
        create(test_ds, bs, ds_tfms, size)

(***************************************************************************)
(* verify_image and verify_images                                          *)
(***************************************************************************)

FileKinds == {"rgb", "gray", "corrupt"}

\* the directories: up to NumFiles files, numbered in path.iterdir() order
Directories == UNION {[1..n -> FileKinds] : n \in 0..NumFiles}

\* open_image(file).shape[0]: the channel count of the decoded image, or
\* None where decoding raises
open_image(kind) ==
    CASE kind = "rgb" -> Some(3)
      [] kind = "gray" -> Some(1)
      [] kind = "corrupt" -> None

\* a faulty check: only a decoding error counts
verify_raises_mut(out) == out = None

\* line 386, `assert open_image(file).shape[0]==3` inside try: open_image
\* raises, or the assertion does
verify_raises(out) == out = None \/ out[1] # 3

AllFiles == DOMAIN vi_kind

\* the worker processes busy with a task
Busy == {f \in AllFiles : vi_task[f] \in {"running", "failed"}}

\* line 393-395: enter the pool and list the directory
list_files ==
    /\ vi_pc = "start"
    /\ UNCHANGED not_verify
    /\ vi_pc' = "pool"
    /\ UNCHANGED <<vi_delete, vi_max_workers, vi_kind, vi_present, vi_task,
                   vi_checks, vi_drained>>

\* line 396: ex.submit(verify_image, file, delete=delete) for the next file
submit(f) ==
    /\ vi_pc = "pool"
    /\ vi_task[f] = "unsubmitted"
    /\ \A g \in AllFiles : g < f => vi_task[g] # "unsubmitted"
    /\ UNCHANGED not_verify
    /\ vi_task' = [vi_task EXCEPT ![f] = "queued"]
    /\ UNCHANGED <<vi_pc, vi_delete, vi_max_workers, vi_kind, vi_present,
                   vi_checks, vi_drained>>

\* a free worker process takes the oldest queued task
worker_start(f) ==
    /\ vi_pc = "pool"
    /\ vi_task[f] = "queued"
    /\ \A g \in AllFiles : g < f => vi_task[g] # "queued"
    /\ Cardinality(Busy) < vi_max_workers
    /\ UNCHANGED not_verify
    /\ vi_task' = [vi_task EXCEPT ![f] = "running"]
    /\ UNCHANGED <<vi_pc, vi_delete, vi_max_workers, vi_kind, vi_present,
                   vi_checks, vi_drained>>

\* verify_image, line 386: the try body
worker_open(f) ==
    /\ vi_pc = "pool"
    /\ vi_task[f] = "running"
    /\ UNCHANGED not_verify
    /\ vi_checks' = [vi_checks EXCEPT ![f] = @ + 1]
    /\ vi_task' = [vi_task EXCEPT ![f] =
            IF verify_raises(open_image(vi_kind[f])) THEN "failed" ELSE "done"]
    /\ UNCHANGED <<vi_pc, vi_delete, vi_max_workers, vi_kind, vi_present, vi_drained>>

\* verify_image, lines 387-389: the except clause
worker_except(f) ==
    /\ vi_pc = "pool"
    /\ vi_task[f] = "failed"
    /\ UNCHANGED not_verify
    /\ vi_present' = IF vi_delete THEN vi_present \ {f} ELSE vi_present
    /\ vi_task' = [vi_task EXCEPT ![f] = "done"]
    /\ UNCHANGED <<vi_pc, vi_delete, vi_max_workers, vi_kind, vi_checks, vi_drained>>

AllSubmitted == \A f \in AllFiles : vi_task[f] # "unsubmitted"

\* line 397: as_completed yields a finished future; its result is not read
drain(f) ==
    /\ vi_pc = "pool"
    /\ AllSubmitted
    /\ vi_task[f] = "done"
    /\ f \notin vi_drained
    /\ UNCHANGED not_verify
    /\ vi_drained' = vi_drained \cup {f}
    /\ UNCHANGED <<vi_pc, vi_delete, vi_max_workers, vi_kind, vi_present, vi_task,
                   vi_checks>>

\* the loop is over, the with block shuts the pool down and the call returns
verify_images_return ==
    /\ vi_pc = "pool"
    /\ AllSubmitted
    /\ vi_drained = AllFiles
    /\ UNCHANGED not_verify
    /\ vi_pc' = "returned"
    /\ UNCHANGED <<vi_delete, vi_max_workers, vi_kind, vi_present, vi_task,
                   vi_checks, vi_drained>>

InitVerify ==
    /\ vi_pc = "start"
    /\ vi_delete \in BOOLEAN
    /\ vi_max_workers \in 1..MaxWorkers
    /\ vi_kind \in Directories
    /\ vi_present = DOMAIN vi_kind
    /\ vi_task = [f \in DOMAIN vi_kind |-> "unsubmitted"]
    /\ vi_checks = [f \in DOMAIN vi_kind |-> 0]
    /\ vi_drained = {}

NextVerify ==
    \/ list_files
    \/ \E f \in AllFiles : submit(f)
    \/ \E f \in AllFiles : worker_start(f)
    \/ \E f \in AllFiles : worker_open(f)
    \/ \E f \in AllFiles : worker_except(f)
    \/ \E f \in AllFiles : drain(f)
    \/ verify_images_return

(***************************************************************************)
(* Specifications: one per component, the other components at rest.        *)
(***************************************************************************)

IdleBunch ==
    /\ stats = None /\ norm = None /\ denorm = None /\ dl_tfms = <<>>
    /\ calls = 0 /\ last = "none" /\ succeeded = FALSE
    /\ n_stats = 0 /\ n_norm = 0 /\ n_add_tfm = 0

IdleAnnot ==
    /\ annot_dict = [categories |-> <<>>, annotations |-> <<>>, images |-> <<>>]
    /\ prefix = None
    /\ ga_pc = "start"
    /\ ga_ret = NotCalled

IdleDs == InitDs

IdleTfm ==
    /\ inner = Dataset(0) /\ inner0 = Dataset(0) /\ wrapper = None /\ accesses = 0
    /\ op = [name |-> "", idx |-> 0] /\ read = None /\ applied = <<>> /\ ret = None

IdleCreate == InitCreate

IdleVerify ==
    /\ vi_pc = "start"
    /\ vi_delete = FALSE
    /\ vi_max_workers = 1
    /\ vi_kind = <<>>
    /\ vi_present = {}
    /\ vi_task = <<>>
    /\ vi_checks = <<>>
    /\ vi_drained = {}

InitSpecBunch == InitBunch /\ IdleAnnot /\ IdleDs /\ IdleTfm /\ IdleCreate /\ IdleVerify
SpecBunch == InitSpecBunch /\ [][NextBunch]_vars

InitSpecAnnot == InitAnnot /\ IdleBunch /\ IdleDs /\ IdleTfm /\ IdleCreate /\ IdleVerify
SpecAnnot == InitSpecAnnot /\ [][NextAnnot]_vars

InitSpecDs == InitDs /\ IdleBunch /\ IdleAnnot /\ IdleTfm /\ IdleCreate /\ IdleVerify
SpecDs == InitSpecDs /\ [][NextDs]_vars

InitSpecTfm == InitTfm /\ IdleBunch /\ IdleAnnot /\ IdleDs /\ IdleCreate /\ IdleVerify
SpecTfm == InitSpecTfm /\ [][NextTfm]_vars

InitSpecCreate == InitCreate /\ IdleBunch /\ IdleAnnot /\ IdleDs /\ IdleTfm /\ IdleVerify
SpecCreate == InitSpecCreate /\ [][NextCreate]_vars

InitSpecVerify ==
    InitVerify /\ IdleBunch /\ IdleAnnot /\ IdleDs /\ IdleTfm /\ IdleCreate
SpecVerify == InitSpecVerify /\ [][NextVerify]_vars

(***************************************************************************)
(* Properties of ImageDataBunch.normalize (checked under SpecBunch).       *)
(***************************************************************************)

\* the normalize transforms among the registered loader transforms
NormTfms(tfms) == {i \in 1..Len(tfms) : tfms[i].kind = "_normalize_batch"}

\* C1: once a call of normalize has returned, every later call of normalize on
\* the same bunch (with or without stats) raises instead of returning.
C1_LaterCallsRaise == [][succeeded => last' = "raised"]_vars

\* C1 happens: a call returned and two later calls were rejected
C1_Witness == succeeded /\ last = "raised" /\ calls = n_stats + 2

Ids(list) == {list[k].id : k \in 1..Len(list)}

\* a well-formed input: distinct ids, every reference resolves
WellFormed(d) ==
    /\ Cardinality(Ids(d.categories)) = Len(d.categories)
    /\ Cardinality(Ids(d.images)) = Len(d.images)
    /\ \A k \in 1..Len(d.annotations) :
          /\ d.annotations[k].image_id \in Ids(d.images)
          /\ d.annotations[k].category_id \in Ids(d.categories)

\* the annotations of one image, in the order of the `annotations` array
AnnsOf(d, id) == LET of_id(a) == a.image_id = id IN SelectSeq(d.annotations, of_id)

\* the images that have an annotation, in the order of the `images` array
Annotated(d) == LET has(o) == AnnsOf(d, o.id) # <<>> IN SelectSeq(d.images, has)

NameOf(d, id) == (CHOOSE k \in 1..Len(d.categories) : d.categories[k].id = id)

\* (x, y, w, h) as (y0, x0, y1, x1)
yxyx(bb) == LET x == bb[1] y == bb[2] w == bb[3] h == bb[4] IN <<y, x, y + h, x + w>>

\* C3: for a well-formed input the three returned lists are parallel: entry k
\* of each describes the k-th image of `images` that has an annotation, and
\* its boxes and category names follow the order of its annotations.
C3_ParallelLists ==
    (ga_pc = "done" /\ WellFormed(annot_dict)) =>
        LET d == annot_dict
            kept == Annotated(d)
        IN  /\ ~ga_ret.exc
            /\ Len(ga_ret.fnames) = Len(kept)
            /\ Len(ga_ret.bboxes) = Len(kept)
            /\ Len(ga_ret.cats) = Len(kept)
            /\ \A k \in 1..Len(kept) :
                  LET as == AnnsOf(d, kept[k].id) IN
                  /\ ga_ret.fnames[k] = prefix \o <<kept[k].file_name>>
                  /\ Len(ga_ret.bboxes[k]) = Len(as)
                  /\ Len(ga_ret.cats[k]) = Len(as)
                  /\ \A j \in 1..Len(as) :
                        /\ ga_ret.cats[k][j] = d.categories[NameOf(d, as[j].category_id)].name
                        /\ ga_ret.bboxes[k][j] = yxyx(as[j].bbox)

\* C3 happens: three images, the second and the first annotated in that order
\* of `annotations`, the third without annotation
C3_Witness ==
    /\ ga_pc = "done" /\ WellFormed(annot_dict)
    /\ Len(annot_dict.images) = 3 /\ Len(annot_dict.annotations) = 2
    /\ annot_dict.annotations[1].image_id = annot_dict.images[2].id
    /\ annot_dict.annotations[2].image_id = annot_dict.images[1].id
    /\ Len(ga_ret.fnames) = 2

\* C4: every returned box is its annotation's [x, y, w, h] as [y, x, y+h, x+w];
\* [10,20,30,40] is returned as [20,10,60,40].
C4_BoxConversion ==
    (ga_pc = "done" /\ ~ga_ret.exc) =>
        LET d == annot_dict
            kept == Annotated(d)
        IN  \A k \in 1..Len(ga_ret.bboxes) : \A j \in 1..Len(ga_ret.bboxes[k]) :
              /\ k <= Len(kept)
              /\ j <= Len(AnnsOf(d, kept[k].id))
              /\ LET bb == AnnsOf(d, kept[k].id)[j].bbox IN
                  /\ ga_ret.bboxes[k][j] = <<bb[2], bb[1], bb[2] + bb[4], bb[1] + bb[3]>>
                  /\ bb = <<10, 20, 30, 40>> => ga_ret.bboxes[k][j] = <<20, 10, 60, 40>>

\* C4 happens: a returned box is [20,10,60,40]
C4_Witness ==
    /\ ga_pc = "done" /\ ~ga_ret.exc
    /\ \E k \in 1..Len(ga_ret.bboxes) : \E j \in 1..Len(ga_ret.bboxes[k]) :
          ga_ret.bboxes[k][j] = <<20, 10, 60, 40>>

MissingCategory(d) ==
    \E k \in 1..Len(d.annotations) : d.annotations[k].category_id \notin Ids(d.categories)
MissingImage(d) ==
    \E k \in 1..Len(d.annotations) : d.annotations[k].image_id \notin Ids(d.images)

\* C5 as stated: get_annotations fails whenever an annotation refers to a
\* category_id absent from `categories` or to an image_id absent from `images`.
C5_FailsOnAnyMissingReference ==
    (ga_pc = "done" /\ (MissingCategory(annot_dict) \/ MissingImage(annot_dict)))
        => ga_ret.exc

\* C5 amended: get_annotations fails exactly when an annotation refers to a
\* category_id absent from `categories`; an annotation whose image_id is absent
\* from `images` raises nothing and is left out of the result.
C5_FailsOnMissingCategoryOnly ==
    ga_pc = "done" =>
        /\ ga_ret.exc = MissingCategory(annot_dict)
        /\ ~ga_ret.exc =>
              /\ Len(ga_ret.fnames) = Len(Annotated(annot_dict))
              /\ \A k \in 1..Len(ga_ret.fnames) :
                    ga_ret.fnames[k] = prefix \o <<Annotated(annot_dict)[k].file_name>>

\* C5 happens: a category is missing and the call has raised
C5_Witness ==
    /\ ga_pc = "done" /\ MissingCategory(annot_dict) /\ ~MissingImage(annot_dict)
    /\ ga_ret.exc

(***************************************************************************)
(* Properties of the dataset constructors (checked under SpecDs).          *)
(***************************************************************************)

Built(kind) == ds_pc = "done" /\ ds_obj # None /\ ds_obj[1].kind = kind

\* C6: in every ObjectDetectDataset, whatever the label lists, "background" has
\* index 0: classes[0] == "background" and class2idx["background"] == 0.
C6_BackgroundIsIndex0 ==
    Built("ObjectDetectDataset") =>
        /\ ds_obj[1].classes[1] = "background"
        /\ ds_obj[1].class2idx["background"] = 0

\* class2idx is a bijection from the entries of classes onto range(len(classes))
Bijection(classes, class2idx) ==
    /\ Cardinality(DOMAIN class2idx) = Len(classes)
    /\ \A k \in 1..Len(classes) : class2idx[classes[k]] = k - 1

\* C7: in every ImageClassificationDataset, ImageMultiDataset and
\* ObjectDetectDataset that was constructed, class2idx is a bijection from the
\* entries of classes onto range(len(classes)).
C7_Class2idxBijection ==
    (Built("ImageClassificationDataset") \/ Built("ImageMultiDataset")
        \/ Built("ObjectDetectDataset")) =>
        Bijection(ds_obj[1].classes, ds_obj[1].class2idx)

\* C8: a SegmentationDataset whose image and mask lists differ in length, or an
\* ObjectDetectDataset whose path, box and label lists are not all of one
\* length, fails at construction; a dataset of these kinds that was
\* constructed has lists of equal length.
C8_MismatchedListsFail ==
    /\ (ds_pc = "done" /\ ds_args.kind = "SegmentationDataset") =>
          /\ Len(ds_args.x) # Len(ds_args.y) => (ds_obj = None /\ ds_exc = "AssertionError")
          /\ ds_obj # None => Len(ds_obj[1].x) = Len(ds_obj[1].y)
    /\ (ds_pc = "done" /\ ds_args.kind = "ObjectDetectDataset") =>
          /\ (Len(ds_args.x) # Len(ds_args.bbs) \/ Len(ds_args.x) # Len(ds_args.y)
                 \/ Len(ds_args.bbs) # Len(ds_args.y))
                => (ds_obj = None /\ ds_exc = "AssertionError")
          /\ ds_obj # None =>
                /\ Len(ds_obj[1].x_fns) = Len(ds_obj[1].bbs)
                /\ Len(ds_obj[1].x_fns) = Len(ds_obj[1].labels)

\* C8 happens: three images and two masks, and the constructor has failed
C8_Witness ==
    /\ ds_pc = "done" /\ ds_args.kind = "SegmentationDataset"
    /\ Len(ds_args.x) = 3 /\ Len(ds_args.y) = 2
    /\ ds_obj = None /\ ds_exc = "AssertionError"

(***************************************************************************)
(* Properties of DatasetTfm (checked under SpecTfm).                       *)
(***************************************************************************)

\* C9: after any sequence of operations on a DatasetTfm, its len is the len of
\* the wrapped dataset, and the wrapped dataset's items, length and attributes
\* are what they were when it was wrapped; an access of index idx reads item
\* idx of that dataset.
C9_WrapperKeepsDataset ==
    wrapper # None =>
        /\ inner = inner0
        /\ op.name = "__len__" => ret = Some(Len(inner0.items))
        /\ op.name = "__getattr__" => ret = Some(inner0.classes)
        /\ (op.name = "__getitem__" /\ op.idx < Len(inner0.items)) =>
              read = Some(inner0.items[op.idx + 1])

\* C9 happens: an item was read through a wrapper with transforms, after at
\* least one earlier operation on it
C9_Witness ==
    /\ wrapper # None /\ wrapper[1].tfms # <<>>
    /\ accesses >= 2 /\ op.name = "__getitem__" /\ read # None
    /\ Len(inner0.items) = 2

\* C10: an item access with tfm_y false returns the wrapped dataset's target
\* as it is and makes one transform pass, on the input; with tfm_y true it
\* makes the input pass and then the target pass, the target pass with the
\* wrapper's keyword configuration and do_resolve False, whatever do_resolve
\* the caller gave, and the input pass with the caller's configuration.
C10_TargetPass ==
    (op.name = "__getitem__" /\ ret # None) =>
        LET w == wrapper[1]
            item == inner0.items[op.idx + 1]
            y_kw == [size |-> w.kwargs.size, do_resolve |-> Some(FALSE)]
        IN  /\ applied[1] = [on |-> "x", tfms |-> w.tfms, kwargs |-> w.kwargs]
            /\ ret[1][1] = apply_tfms(w.tfms, item.x, w.kwargs)
            /\ ~w.tfm_y => (Len(applied) = 1 /\ ret[1][2] = item.y)
            /\ w.tfm_y =>
                  /\ Len(applied) = 2
                  /\ applied[2] = [on |-> "y", tfms |-> w.tfms, kwargs |-> y_kw]
                  /\ ret[1][2] = apply_tfms(w.tfms, item.y, y_kw)

\* C10 happens: the target was transformed through a wrapper whose caller set
\* do_resolve to True
C10_Witness ==
    /\ op.name = "__getitem__" /\ ret # None
    /\ wrapper[1].tfm_y /\ wrapper[1].tfms # <<>>
    /\ wrapper[1].kwargs.do_resolve = Some(TRUE)
    /\ Len(applied) = 2

(***************************************************************************)
(* Properties of ImageDataBunch.create (checked under SpecCreate).         *)
(***************************************************************************)

Returned == cr_pc = "done" /\ cr_exc = ""

\* loader k is for dataset name, with this batch size and shuffle flag, and
\* its dataset is wrapped with the transforms the claim names when ds_tfms
\* is given
LoaderIs(k, name, batch_size, shuffle) ==
    /\ k <= Len(cr_dls)
    /\ cr_dls[k].dataset.ds = name
    /\ cr_dls[k].batch_size = batch_size
    /\ cr_dls[k].shuffle = shuffle
    /\ IF truthy(cr_args.ds_tfms)
         THEN /\ cr_dls[k].dataset.tfm # None
              /\ cr_dls[k].dataset.tfm[1].tfms =
                    cr_args.ds_tfms[1][IF name = "train" THEN 1 ELSE 2]
         ELSE cr_dls[k].dataset.tfm = None

\* C11 as stated: create produces three loaders, for train, valid and test in
\* that order, with batch sizes bs, 2*bs, 2*bs and shuffling for train only;
\* with ds_tfms, train is wrapped with ds_tfms[0], valid and test with ds_tfms[1].
C11_ThreeLoaders ==
    Returned =>
        /\ Len(cr_dls) = 3
        /\ LoaderIs(1, "train", cr_args.bs, TRUE)
        /\ LoaderIs(2, "valid", 2 * cr_args.bs, FALSE)
        /\ LoaderIs(3, "test", 2 * cr_args.bs, FALSE)

\* C11 amended: create produces one loader per dataset it was given, for
\* train, valid and (only when test_ds is given) test in that order: two
\* loaders without test_ds, three with it; batch sizes, shuffling and
\* wrapping as stated.
C11_LoaderPerDataset ==
    Returned =>
        /\ Len(cr_dls) = IF cr_args.test_ds = None THEN 2 ELSE 3
        /\ LoaderIs(1, "train", cr_args.bs, TRUE)
        /\ LoaderIs(2, "valid", 2 * cr_args.bs, FALSE)
        /\ cr_args.test_ds # None => LoaderIs(3, "test", 2 * cr_args.bs, FALSE)

\* C11 happens: create returned three loaders over datasets wrapped with two
\* different transform lists
C11_Witness ==
    /\ Returned /\ cr_args.test_ds # None /\ truthy(cr_args.ds_tfms)
    /\ cr_args.ds_tfms[1][1] # cr_args.ds_tfms[1][2]
    /\ Len(cr_dls) = 3 /\ cr_args.bs = 64

(***************************************************************************)
(* Properties of verify_images (checked under SpecVerify).                 *)
(***************************************************************************)

\* the files that fail verification: undecodable, or not exactly 3 channels
FailsVerification(f) == vi_kind[f] # "rgb"

====
